---------------------------- MODULE Spec2Model ----------------------------
(***************************************************************************)
(* UAGO-3C: the three-cycle engine (src/src/uago_core.py) as a state       *)
(* machine.  One run of UAGO3CEngine.run is followed statement group by    *)
(* statement group; every call inside the try block of run either returns  *)
(* or raises, and a raise is taken by the single handler of lines 225-227. *)
(*                                                                         *)
(* Strings that the code only passes around (paths, exception texts) are   *)
(* TLA+ strings.  Formula strings, which _calculate_formula_similarity     *)
(* splits and joins, are sequences of characters.  An optional value       *)
(* (Python None or a value) is a sequence of length 0 or 1.                *)
(***************************************************************************)
EXTENDS Integers, Sequences, FiniteSets, TLC

(* ----------------------------- bounds --------------------------------- *)

\* largest max_cycles value a configuration of the model carries
MaxCyclesBound == 3

\* longest formula string the similarity specification enumerates
MaxLen == 3

(* --------------------------- optional values -------------------------- *)

None == <<>>

Some(x) == <<x>>

\* dict.get(key, default) on a key that may be absent
Get(opt, default) == IF opt = None THEN default ELSE opt[1]

(* ------------------- _calculate_formula_similarity -------------------- *)

\* the characters str.split() treats as separators (space and tab here)
Whitespace == {" ", "\t"}

\* the alphabet of the formula strings of the model
Chars == {"x", "y"} \cup Whitespace

RECURSIVE SplitFrom(_, _, _)
\* str.split() with no argument: the maximal runs of non-whitespace
\* characters of s[i..], cur being the run under construction
SplitFrom(s, i, cur) ==
    IF i > Len(s)
    THEN IF cur = <<>> THEN <<>> ELSE <<cur>>
    ELSE IF s[i] \in Whitespace
         THEN IF cur = <<>>
              THEN SplitFrom(s, i + 1, <<>>)
              ELSE <<cur>> \o SplitFrom(s, i + 1, <<>>)
         ELSE SplitFrom(s, i + 1, Append(cur, s[i]))

Split(s) == SplitFrom(s, 1, <<>>)

RECURSIVE Join(_)
\* ' '.join(tokens)
Join(tokens) ==
    IF tokens = <<>> THEN <<>>
    ELSE IF Len(tokens) = 1 THEN tokens[1]
    ELSE tokens[1] \o <<" ">> \o Join(Tail(tokens))

\* ' '.join(formula.split())
Normalize(formula) == Join(Split(formula))

\* variant: the second formula is compared as given, not normalized
SimilarityUnnormalizedRight(formula1, formula2) ==
    IF Normalize(formula1) = formula2 THEN 100 ELSE 0

\* _calculate_formula_similarity, in hundredths (1.0 is 100, 0.0 is 0)
Similarity(formula1, formula2) ==
    LET norm1 == Normalize(formula1)
        norm2 == Normalize(formula2)
    IN  IF norm1 = norm2 THEN 100 ELSE 0

(* ------------------------------ state --------------------------------- *)

VARIABLES
    pc,                 \* position of run in its body
    config,             \* self.config, as far as run reads it
    driver,             \* self.driver: "none" or "chrome"
    result,             \* the result dict of run
    invariants,         \* local invariants (Discovery)
    formula,            \* local formula (Discovery)
    explanation,        \* local explanation
    current_formula,    \* formula handed to the next render
    current_invariants, \* invariants handed to the next render
    attempt,            \* loop variable of the Embodiment/Validation loop
    new_invariants,     \* invariants re-measured in this attempt
    new_formula,        \* formula re-classified in this attempt
    png_exists,         \* os.path.exists(png_path) for this attempt's raster
    calls,              \* number of calls made to each collaborator
    env,                \* what the collaborators did (for the claims)
    fa, fb, simAB, simBA, simAA, \* the similarity specification's state
    sym,                \* _detect_symmetry: rotation scores and the token
    br,                 \* _analyze_branching: the image and the result
    box,                \* _box_counting_dimension: the image and the counts
    cls,                \* generate_formula_from_invariants: two calls
    vis,                \* _determine_visualization_type: vector and family
    meas,               \* measure_invariants followed by the renderer's choice
    cli                 \* main: arguments, files, exit code

runVars == <<pc, config, driver, result, invariants, formula, explanation,
             current_formula, current_invariants, attempt, new_invariants,
             new_formula, png_exists, calls, env>>

simVars == <<fa, fb, simAB, simBA, simAA>>

\* the state of the specifications of the single functions
unitVars == <<sym, br, box, cls, vis, meas, cli>>

\* everything run does not touch
pureVars == <<simVars, unitVars>>

vars == <<runVars, simVars, unitVars>>

(* ------------------------ values of the model ------------------------- *)

\* similarity_threshold values a configuration carries, in hundredths
ThresholdValues == {0, 100}

\* mmss_config.get('max_cycles', 1): the default when the key is absent
DefaultMaxCycles == 1

\* mmss_config.get('similarity_threshold', 0.95), in hundredths
DefaultThreshold == 95

\* the configurations uago_mmss_config.json can hold, as far as run reads
\* them: max_cycles and similarity_threshold of SYNTHESIZED_MMSS_SYSTEM
\* (either may be absent) and whether visualization.output_dir is present
Configs ==
    [ loaded : {TRUE},
      max_cycles : {None} \cup {Some(n) : n \in 0..MaxCyclesBound},
      similarity_threshold : {None} \cup {Some(t) : t \in ThresholdValues},
      vis_output_dir : BOOLEAN,
      mmss_use_mistral_api : {None, Some(FALSE), Some(TRUE)},
      use_mistral_api : {None, Some(FALSE), Some(TRUE)} ]

\* self.config = {} of __init__
EmptyConfig ==
    [ loaded |-> FALSE, max_cycles |-> None, similarity_threshold |-> None,
      vis_output_dir |-> FALSE, mmss_use_mistral_api |-> None,
      use_mistral_api |-> None ]

\* the formula strings generate_formula_from_invariants returns in the
\* model: two that differ only in whitespace and one that differs
FormulaStrings == { <<"x">>, <<"x", " ">>, <<"y">> }

\* the invariants vectors measure_invariants returns in the model
InvariantVectors == {"inv_a", "inv_b"}

\* what the Explanation Oracle adapter returns: the text when the call
\* succeeds, an empty or error-prefixed string when it fails
ExplanationOf(oracle_ok) ==
    IF oracle_ok THEN {"text"} ELSE {"", "Error: oracle call failed"}

\* variant: the adapter lets a failed call raise
ExplanationRaisesOnFailure(oracle_ok) == ~oracle_ok

\* whether a failed oracle call raises into run: the adapter catches it
ExplanationRaises(oracle_ok) == FALSE

(* ------------------------- the result of run -------------------------- *)

\* variant: the result starts out as a success
InitialResultOptimistic ==
    [ status |-> "success", formula |-> None, attempts |-> 0,
      history |-> <<>>, error |-> None, mmss_explanation |-> None,
      final_visualization |-> None ]

\* result = {'status': 'failure', 'formula': None, 'attempts': 0,
\*           'history': []}; keys set later are absent (None) here
InitialResult ==
    [ status |-> "failure", formula |-> None, attempts |-> 0,
      history |-> <<>>, error |-> None, mmss_explanation |-> None,
      final_visualization |-> None ]

\* the record appended for attempt 1
DiscoveryRecord(f, inv, expl) ==
    [ attempt |-> 1, formula |-> f, invariants |-> inv,
      explanation |-> Some(expl), visualization |-> None,
      similarity_score |-> None ]

\* the record appended for attempt a >= 2
ValidationRecord(a, f, inv, sim) ==
    [ attempt |-> a, formula |-> f, invariants |-> inv,
      explanation |-> None, visualization |-> Some(a),
      similarity_score |-> Some(sim) ]

\* max_cycles == 1: the single-cycle branch
SingleShot(max_cycles) == max_cycles = 1

\* variant: range(2, max_cycles), one attempt short
InLoopRangeExclusive(a, max_cycles) == a >= 2 /\ a < max_cycles

\* range(2, max_cycles + 1) still holds attempt a
InLoopRange(a, max_cycles) == a >= 2 /\ a <= max_cycles

\* variant: similarity > similarity_threshold
ConvergedStrictly(similarity, threshold) == similarity > threshold

\* similarity >= similarity_threshold
Converged(similarity, threshold) == similarity >= threshold

\* variant: a success that leaves result['formula'] alone
SucceedWithoutFormula(r, f, a) ==
    [r EXCEPT !.status = "success", !.attempts = a]

\* status, formula and attempts set on a success
Succeed(r, f, a) ==
    [r EXCEPT !.status = "success", !.formula = Some(f), !.attempts = a]

\* variant: attempts is not set after the loop
AfterLoopKeepsAttempts(r, max_cycles) == r

\* if result['status'] != 'success': result['attempts'] = max_cycles
AfterLoopResult(r, max_cycles) ==
    IF r.status # "success" THEN [r EXCEPT !.attempts = max_cycles] ELSE r

\* variant: the handler swallows the exception without recording it
OnExceptionSilent(r, e) == r

\* except Exception as e: result['error'] = str(e)
OnException(r, e) == [r EXCEPT !.error = Some(e)]

\* line 31: if use_mistral and mistral_api_key (None and "" are falsy)
UsesMistral(use_mistral, api_key) ==
    use_mistral /\ api_key # None /\ api_key # Some("")

\* variant: run hands the classifier an API key
PassedApiKeyFromEnvironment == Some("key")

\* the mistral_api_key argument of the two classifier calls of run: lines
\* 108-112 and 192-196 pass none, so it is the default None of
\* symbolic_regressor.py line 16
PassedApiKey == None

\* line 110: use_mistral=mmss_config.get('use_mistral_api', False)
UseMistralDiscovery(c) == Get(c.mmss_use_mistral_api, FALSE)

\* line 194: use_mistral=self.config.get('use_mistral_api', False)
UseMistralValidation(c) == Get(c.use_mistral_api, FALSE)

\* one classifier call as run makes it: whether the Mistral service is
\* called (symbolic_regressor.py lines 31-33) and which generator the
\* returned formula comes from (lines 33 and 38)
FormulaPath(use_mistral, api_key, mistral_ok) ==
    [ use_mistral |-> use_mistral,
      invoked |-> UsesMistral(use_mistral, api_key),
      source |-> IF UsesMistral(use_mistral, api_key) /\ mistral_ok
                 THEN "mistral" ELSE "local" ]

MaxCyclesOf(c) == Get(c.max_cycles, DefaultMaxCycles)

ThresholdOf(c) == Get(c.similarity_threshold, DefaultThreshold)

(* ------------------------------ Init ---------------------------------- *)

\* the locals of run before they are assigned
Unset == "unset"

NoCalls == [render |-> 0, capture |-> 0, measure |-> 0, classify |-> 0]

\* nothing has been asked of the collaborators yet.  raised: a call other
\* than the oracle's raised into run; input_error: the image could not be
\* opened or decoded; classified: the formulas the classifier returned, in
\* order; rendered: the (formula, invariants) pairs handed to the renderer;
\* capture_failed: the attempts whose capture failed; oracle_failed: the
\* oracle call failed; oracle_raised: its failure raised into run;
\* formula_paths: for each classifier call, the use_mistral argument,
\* whether Mistral was called and which generator gave the formula
NoEnv ==
    [ raised |-> FALSE, input_error |-> FALSE, classified |-> <<>>,
      rendered |-> <<>>, capture_failed |-> {}, oracle_failed |-> FALSE,
      oracle_raised |-> FALSE, formula_paths |-> <<>> ]

SimIdle == fa = <<>> /\ fb = <<>> /\ simAB = -1 /\ simBA = -1 /\ simAA = -1

\* a function that has not been called
Idle == [stage |-> "idle"]

UnitIdle ==
    /\ sym = Idle /\ br = Idle /\ box = Idle /\ cls = Idle
    /\ vis = Idle /\ meas = Idle /\ cli = Idle

\* the engine after __init__, run entered, result built (lines 28-33, 80-85)
RunInit ==
    /\ pc = "load_config"
    /\ config = EmptyConfig
    /\ driver = "none"
    /\ result = InitialResult
    /\ invariants = Unset
    /\ formula = <<>>
    /\ explanation = Unset
    /\ current_formula = <<>>
    /\ current_invariants = Unset
    /\ attempt = 0
    /\ new_invariants = Unset
    /\ new_formula = <<>>
    /\ png_exists = FALSE
    /\ calls = NoCalls
    /\ env = NoEnv

Init == RunInit /\ SimIdle /\ UnitIdle

(* ---------------------- the steps of run: Discovery ------------------- *)

\* a call inside the try block raises e: the handler of lines 225-227
\* records it and run returns the result (line 229)
Raise(e) ==
    /\ result' = OnException(result, e)
    /\ pc' = "done"

Remember(field, value) == [env EXCEPT ![field] = value]

\* lines 89-90: self.config = self._load_config('uago_mmss_config.json')
LoadConfig ==
    /\ pc = "load_config"
    /\ \/ /\ \E c \in Configs : config' = c
          /\ pc' = "setup"
          /\ UNCHANGED <<result, env>>
       \/ /\ Raise("config file missing or not JSON")
          /\ env' = Remember("raised", TRUE)
          /\ UNCHANGED config
    /\ UNCHANGED <<driver, invariants, formula, explanation, current_formula,
                   current_invariants, attempt, new_invariants, new_formula,
                   png_exists, calls, pureVars>>

\* lines 91-92: _setup_directories (os.makedirs may raise) and
\* _setup_selenium, which keeps driver None when Chrome cannot be started
Setup ==
    /\ pc = "setup"
    /\ \/ /\ \E d \in {"none", "chrome"} : driver' = d
          /\ pc' = "open_image"
          /\ UNCHANGED <<result, env>>
       \/ /\ Raise("cannot create output directory")
          /\ env' = Remember("raised", TRUE)
          /\ UNCHANGED driver
    /\ UNCHANGED <<config, invariants, formula, explanation, current_formula,
                   current_invariants, attempt, new_invariants, new_formula,
                   png_exists, calls, pureVars>>

\* lines 95-103: Image.open and np.array decode the input image
OpenImage ==
    /\ pc = "open_image"
    /\ \/ /\ pc' = "measure"
          /\ UNCHANGED <<result, env>>
       \/ /\ Raise("cannot identify image file")
          /\ env' = [env EXCEPT !.raised = TRUE, !.input_error = TRUE]
    /\ UNCHANGED <<config, driver, invariants, formula, explanation,
                   current_formula, current_invariants, attempt,
                   new_invariants, new_formula, png_exists, calls, pureVars>>

\* line 107: invariants = measure_invariants(img_array)
Measure ==
    /\ pc = "measure"
    /\ calls' = [calls EXCEPT !.measure = @ + 1]
    /\ \/ /\ \E inv \in InvariantVectors : invariants' = inv
          /\ pc' = "classify"
          /\ UNCHANGED <<result, env>>
       \/ /\ Raise("Input array must be 2D or 3D (RGB).")
          /\ env' = Remember("raised", TRUE)
          /\ UNCHANGED invariants
    /\ UNCHANGED <<config, driver, formula, explanation, current_formula,
                   current_invariants, attempt, new_invariants, new_formula,
                   png_exists, pureVars>>

\* lines 108-112: formula = generate_formula_from_invariants(invariants, ...)
Classify ==
    /\ pc = "classify"
    /\ calls' = [calls EXCEPT !.classify = @ + 1]
    /\ \E f \in FormulaStrings, mistral_ok \in BOOLEAN :
          /\ formula' = f
          /\ env' = [env EXCEPT
                 !.classified = Append(@, f),
                 !.formula_paths =
                     Append(@, FormulaPath(UseMistralDiscovery(config),
                                           PassedApiKey, mistral_ok))]
    /\ pc' = "explain"
    /\ UNCHANGED <<config, driver, result, invariants, explanation,
                   current_formula, current_invariants, attempt,
                   new_invariants, new_formula, png_exists, pureVars>>

\* lines 115-124: explanation = _generate_mmss_explanation(...);
\* result['mmss_explanation'] = explanation
Explain ==
    /\ pc = "explain"
    /\ \E oracle_ok \in BOOLEAN :
          IF ExplanationRaises(oracle_ok)
          THEN /\ Raise("oracle call failed")
               /\ env' = [env EXCEPT !.oracle_failed = TRUE,
                                     !.oracle_raised = TRUE]
               /\ UNCHANGED explanation
          ELSE /\ \E text \in ExplanationOf(oracle_ok) :
                     /\ explanation' = text
                     /\ result' = [result EXCEPT !.mmss_explanation = Some(text)]
               /\ env' = Remember("oracle_failed", ~oracle_ok)
               /\ pc' = "record"
    /\ UNCHANGED <<config, driver, invariants, formula, current_formula,
                   current_invariants, attempt, new_invariants, new_formula,
                   png_exists, calls, pureVars>>

\* lines 126-163: append the record of attempt 1, read max_cycles, take the
\* single-cycle branch or enter the loop of line 165 with attempt = 2
Record ==
    /\ pc = "record"
    /\ result' = [result EXCEPT !.history =
                     Append(@, DiscoveryRecord(formula, invariants, explanation))]
    /\ IF SingleShot(MaxCyclesOf(config))
       THEN /\ pc' = "final_render"
            /\ UNCHANGED <<current_formula, current_invariants, attempt>>
       ELSE /\ current_formula' = formula
            /\ current_invariants' = invariants
            /\ attempt' = 2
            /\ pc' = IF InLoopRange(2, MaxCyclesOf(config))
                     THEN "render" ELSE "after_loop"
    /\ UNCHANGED <<config, driver, invariants, formula, explanation,
                   new_invariants, new_formula, png_exists, calls, env,
                   pureVars>>

(* ------------------ the steps of run: single cycle -------------------- *)

\* lines 141-148: html_content = generate_jsx_visualization(formula,
\* invariants, width=, height=, mmss_explanation=, config=).  The call
\* raises when the renderer does: generate_jsx_visualization of
\* jsx_visualizer.py:53 takes (formula, invariants, width, height) only and
\* rejects the two extra keywords with a TypeError.
FinalRender ==
    /\ pc = "final_render"
    /\ calls' = [calls EXCEPT !.render = @ + 1]
    /\ \/ /\ pc' = "final_write"
          /\ env' = Remember("rendered",
                             Append(env.rendered, <<formula, invariants>>))
          /\ UNCHANGED result
       \/ /\ Raise("generate_jsx_visualization() got an unexpected keyword argument")
          /\ env' = [env EXCEPT !.raised = TRUE,
                        !.rendered = Append(@, <<formula, invariants>>)]
    /\ UNCHANGED <<config, driver, invariants, formula, explanation,
                   current_formula, current_invariants, attempt,
                   new_invariants, new_formula, png_exists, pureVars>>

\* lines 149-160: write final_visualization.html, then status = success,
\* formula = formula, attempts = 1, return result
FinalWrite ==
    /\ pc = "final_write"
    /\ \/ /\ result' = Succeed([result EXCEPT !.final_visualization =
                                   Some("final_visualization.html")],
                               formula, 1)
          /\ pc' = "done"
          /\ UNCHANGED env
       \/ /\ Raise("cannot write final_visualization.html")
          /\ env' = Remember("raised", TRUE)
    /\ UNCHANGED <<config, driver, invariants, formula, explanation,
                   current_formula, current_invariants, attempt,
                   new_invariants, new_formula, png_exists, calls, pureVars>>

(* ------------- the steps of run: Embodiment and Validation ------------ *)

\* lines 168-175: html_content = generate_jsx_visualization(
\* current_formula, current_invariants, ...), the same call as line 141
Render ==
    /\ pc = "render"
    /\ calls' = [calls EXCEPT !.render = @ + 1]
    /\ \/ /\ pc' = "write_html"
          /\ env' = Remember("rendered",
                     Append(env.rendered, <<current_formula, current_invariants>>))
          /\ UNCHANGED result
       \/ /\ Raise("generate_jsx_visualization() got an unexpected keyword argument")
          /\ env' = [env EXCEPT !.raised = TRUE,
                        !.rendered = Append(@, <<current_formula, current_invariants>>)]
    /\ UNCHANGED <<config, driver, invariants, formula, explanation,
                   current_formula, current_invariants, attempt,
                   new_invariants, new_formula, png_exists, pureVars>>

\* lines 178-185: html_path from self.config['visualization']['output_dir']
\* (a KeyError when the configuration has no such key), then the file write
WriteHtml ==
    /\ pc = "write_html"
    /\ \/ /\ config.vis_output_dir
          /\ pc' = "capture"
          /\ UNCHANGED <<result, env>>
       \/ /\ ~config.vis_output_dir
          /\ Raise("'visualization'")
          /\ env' = Remember("raised", TRUE)
       \/ /\ config.vis_output_dir
          /\ Raise("cannot write attempt html")
          /\ env' = Remember("raised", TRUE)
    /\ UNCHANGED <<config, driver, invariants, formula, explanation,
                   current_formula, current_invariants, attempt,
                   new_invariants, new_formula, png_exists, calls, pureVars>>

\* what _capture_screenshot leaves at png_path: with a driver the screenshot
\* may be saved; when driver is None, or get/save_screenshot raise, the
\* exception is swallowed (lines 237-238) and png_path holds whatever an
\* earlier run left there, if anything
CaptureOutcomes(d) ==
    IF d = "chrome" THEN {"saved", "failed_stale_png", "failed_no_png"}
    ELSE {"failed_stale_png", "failed_no_png"}

\* line 187: self._capture_screenshot(html_path, png_path); never raises
Capture ==
    /\ pc = "capture"
    /\ calls' = [calls EXCEPT !.capture = @ + 1]
    /\ \E outcome \in CaptureOutcomes(driver) :
          /\ png_exists' = (outcome # "failed_no_png")
          /\ env' = IF outcome = "saved" THEN env
                    ELSE Remember("capture_failed",
                                  env.capture_failed \cup {attempt})
    /\ pc' = "remeasure"
    /\ UNCHANGED <<config, driver, result, invariants, formula, explanation,
                   current_formula, current_invariants, attempt,
                   new_invariants, new_formula, pureVars>>

\* line 191: new_invariants = measure_invariants(png_path); lines 32-36 of
\* invariant_measurer.py raise FileNotFoundError when png_path does not
\* exist and ValueError when cv2.imread cannot load it
Remeasure ==
    /\ pc = "remeasure"
    /\ calls' = [calls EXCEPT !.measure = @ + 1]
    /\ \/ /\ png_exists
          /\ \E inv \in InvariantVectors : new_invariants' = inv
          /\ pc' = "reclassify"
          /\ UNCHANGED <<result, env>>
       \/ /\ ~png_exists
          /\ Raise("Image not found")
          /\ env' = Remember("raised", TRUE)
          /\ UNCHANGED new_invariants
       \/ /\ png_exists
          /\ Raise("Cannot load image")
          /\ env' = Remember("raised", TRUE)
          /\ UNCHANGED new_invariants
    /\ UNCHANGED <<config, driver, invariants, formula, explanation,
                   current_formula, current_invariants, attempt, new_formula,
                   png_exists, pureVars>>

\* lines 192-196: new_formula = generate_formula_from_invariants(...)
Reclassify ==
    /\ pc = "reclassify"
    /\ calls' = [calls EXCEPT !.classify = @ + 1]
    /\ \E f \in FormulaStrings, mistral_ok \in BOOLEAN :
          /\ new_formula' = f
          /\ env' = [env EXCEPT
                 !.classified = Append(@, f),
                 !.formula_paths =
                     Append(@, FormulaPath(UseMistralValidation(config),
                                           PassedApiKey, mistral_ok))]
    /\ pc' = "compare"
    /\ UNCHANGED <<config, driver, result, invariants, formula, explanation,
                   current_formula, current_invariants, attempt,
                   new_invariants, png_exists, pureVars>>

\* variant: the new formula never becomes the current one
CompareKeepsCurrent ==
    /\ pc = "compare"
    /\ LET similarity == Similarity(current_formula, new_formula)
           recorded == [result EXCEPT !.history =
                           Append(@, ValidationRecord(attempt, new_formula,
                                                      new_invariants, similarity))]
       IN  IF Converged(similarity, ThresholdOf(config))
           THEN /\ result' = Succeed(recorded, new_formula, attempt)
                /\ pc' = "after_loop"
                /\ UNCHANGED <<current_formula, current_invariants, attempt>>
           ELSE /\ result' = recorded
                /\ attempt' = attempt + 1
                /\ pc' = IF InLoopRange(attempt + 1, MaxCyclesOf(config))
                         THEN "render" ELSE "after_loop"
                /\ UNCHANGED <<current_formula, current_invariants>>
    /\ UNCHANGED <<config, driver, invariants, formula, explanation,
                   new_invariants, new_formula, png_exists, calls, env,
                   pureVars>>

\* lines 199-219: similarity, the history record of this attempt, then
\* either success and break, or the new formula becomes the current one
\* and the loop goes to its next attempt
Compare ==
    /\ pc = "compare"
    /\ LET similarity == Similarity(current_formula, new_formula)
           recorded == [result EXCEPT !.history =
                           Append(@, ValidationRecord(attempt, new_formula,
                                                      new_invariants, similarity))]
       IN  IF Converged(similarity, ThresholdOf(config))
           THEN /\ result' = Succeed(recorded, new_formula, attempt)
                /\ pc' = "after_loop"
                /\ UNCHANGED <<current_formula, current_invariants, attempt>>
           ELSE /\ result' = recorded
                /\ current_formula' = new_formula
                /\ current_invariants' = new_invariants
                /\ attempt' = attempt + 1
                /\ pc' = IF InLoopRange(attempt + 1, MaxCyclesOf(config))
                         THEN "render" ELSE "after_loop"
    /\ UNCHANGED <<config, driver, invariants, formula, explanation,
                   new_invariants, new_formula, png_exists, calls, env,
                   pureVars>>

\* lines 222-223 and 229: after the loop, attempts = max_cycles unless the
\* run succeeded; return result
AfterLoop ==
    /\ pc = "after_loop"
    /\ result' = AfterLoopResult(result, MaxCyclesOf(config))
    /\ pc' = "done"
    /\ UNCHANGED <<config, driver, invariants, formula, explanation,
                   current_formula, current_invariants, attempt,
                   new_invariants, new_formula, png_exists, calls, env,
                   pureVars>>

Next ==
    \/ LoadConfig \/ Setup \/ OpenImage \/ Measure \/ Classify \/ Explain
    \/ Record \/ FinalRender \/ FinalWrite \/ Render \/ WriteHtml
    \/ Capture \/ Remeasure \/ Reclassify \/ Compare \/ AfterLoop

Spec == Init /\ [][Next]_vars

(* ------------- the similarity function on its own --------------------- *)

\* the formula strings of at most n characters
Strings(n) == UNION { [1..k -> Chars] : k \in 0..n }

SimInit ==
    /\ RunInit
    /\ UnitIdle
    /\ fa \in Strings(MaxLen)
    /\ fb \in Strings(MaxLen)
    /\ simAB = -1 /\ simBA = -1 /\ simAA = -1

\* _calculate_formula_similarity applied to (fa, fb), (fb, fa) and (fa, fa)
CompareFormulas ==
    /\ simAB = -1
    /\ simAB' = Similarity(fa, fb)
    /\ simBA' = Similarity(fb, fa)
    /\ simAA' = Similarity(fa, fa)
    /\ UNCHANGED <<fa, fb, runVars, unitVars>>

SimNext == CompareFormulas

SimSpec == SimInit /\ [][SimNext]_vars

(* ------------------------------ claims -------------------------------- *)

Done == pc = "done"

History == result.history

\* the attempts >= 2 whose record reached the similarity threshold
ConvergedAttempts ==
    { k \in 2..Len(History) :
        History[k].similarity_score[1] >= ThresholdOf(config) }

\* C1: with max_cycles = 1, a run whose Discovery completed returns
\* status = success with attempts = 1, and at no point of the run has the
\* renderer or the capture been called.
C1_SingleCycleSucceedsWithoutRendering ==
    (config.loaded /\ MaxCyclesOf(config) = 1) =>
        /\ calls.render = 0
        /\ calls.capture = 0
        /\ (Done /\ Len(History) >= 1) =>
               (result.status = "success" /\ result.attempts = 1)

\* C2: in the Embodiment/Validation loop the first attempt whose similarity
\* reaches the threshold ends the run: its record is the last one of the
\* history, the status is success, the formula is that record's formula,
\* attempts is its number, and exactly the renders, captures, measurements
\* and classifications up to that attempt have been made, none after it.
C2_FirstConvergedAttemptEndsRun ==
    \A k \in ConvergedAttempts :
        /\ k = Len(History)
        /\ pc \in {"after_loop", "done"}
        /\ result.status = "success"
        /\ result.formula = Some(History[k].formula)
        /\ result.formula = Some(new_formula)
        /\ result.attempts = k
        /\ result.error = None
        /\ calls = [render |-> k - 1, capture |-> k - 1,
                    measure |-> k, classify |-> k]

\* a run that converged at attempt 3 on a formula that differs from the
\* formula of attempt 2 in whitespace only
C2_Witness ==
    /\ Done
    /\ 3 \in ConvergedAttempts
    /\ History[3].formula # History[2].formula
    /\ ThresholdOf(config) = 100

\* C3: when max_cycles >= 2, no attempt reaches the threshold and nothing
\* raises, run returns status = failure, attempts = max_cycles and no formula.
C3_ExhaustedIsFailure ==
    (Done /\ MaxCyclesOf(config) >= 2 /\ ConvergedAttempts = {}
          /\ result.error = None /\ ~env.raised) =>
        /\ result.status = "failure"
        /\ result.attempts = MaxCyclesOf(config)
        /\ result.formula = None

\* a run of three cycles that ended without convergence and without error
C3_Witness ==
    /\ Done
    /\ MaxCyclesOf(config) = 3
    /\ ConvergedAttempts = {}
    /\ ~env.raised
    /\ Len(History) = 3

\* C4: in a result returned with max_cycles >= 1 and no exception, the
\* history has attempts records when status = success and max_cycles
\* records when the loop was exhausted without success.
C4_HistoryLength ==
    (Done /\ MaxCyclesOf(config) >= 1 /\ result.error = None /\ ~env.raised) =>
        /\ result.status = "success" => Len(History) = result.attempts
        /\ result.status # "success" => Len(History) = MaxCyclesOf(config)

\* an exhausted run of three cycles: three records, attempts = 3
C4_Witness ==
    /\ Done
    /\ ~env.raised
    /\ result.status = "failure"
    /\ result.attempts = 3
    /\ Len(History) = 3

\* C5: in every returned result the formula is set exactly when the status
\* is success.
C5_FormulaIffSuccess ==
    Done => ((result.formula # None) <=> (result.status = "success"))

\* a converged run: success with the formula set
C5_Witness ==
    /\ Done
    /\ result.status = "success"
    /\ result.formula # None
    /\ result.attempts = 2

\* C6: a call that raises inside run ends the run with a returned result
\* whose error is set and whose status is failure; and error is set only
\* when a call raised.
C6_ExceptionsAreRecorded ==
    /\ (env.raised \/ env.oracle_raised) =>
           (Done /\ result.error # None /\ result.status = "failure")
    /\ result.error # None => (env.raised \/ env.oracle_raised)

\* a run ended by an exception in its third attempt, two records appended
C6_Witness ==
    /\ Done
    /\ env.raised
    /\ result.error # None
    /\ Len(History) = 2
    /\ attempt = 3

\* C7: a capture that fails in attempt k and leaves no raster file does not
\* abort the run: the record of attempt k is appended and error stays unset.
C7_CaptureFailureIsNotFatal ==
    (Done /\ attempt \in env.capture_failed /\ ~png_exists) =>
        (Len(History) >= attempt /\ result.error = None)

\* what a result says about convergence: status, formula, attempts and the
\* formulas of the history
OutcomeOf(r) ==
    [ status |-> r.status, formula |-> r.formula, attempts |-> r.attempts,
      formulas |-> [i \in 1..Len(r.history) |-> r.history[i].formula] ]

Min(S) == CHOOSE x \in S : \A y \in S : x <= y

\* the outcome section 4.3 of the specification prescribes, from the
\* configuration, the formulas the classifier returned (log) and whether a
\* call other than the oracle's raised; asked tells how many
\* classifications the prescribed run needs
PrescribedOutcome(max_cycles, threshold, log, faulted) ==
    LET hits == { k \in 2..Len(log) :
                    /\ k <= max_cycles
                    /\ Similarity(log[k - 1], log[k]) >= threshold }
    IN  IF faulted
        THEN [ status |-> "failure", formula |-> None, attempts |-> 0,
               formulas |-> log, asked |-> Len(log) ]
        ELSE IF max_cycles = 1
        THEN [ status |-> "success", formula |-> Some(log[1]), attempts |-> 1,
               formulas |-> log, asked |-> 1 ]
        ELSE IF hits # {}
        THEN [ status |-> "success", formula |-> Some(log[Min(hits)]),
               attempts |-> Min(hits), formulas |-> log,
               asked |-> Min(hits) ]
        ELSE [ status |-> "failure", formula |-> None,
               attempts |-> max_cycles, formulas |-> log,
               asked |-> IF max_cycles >= 2 THEN max_cycles ELSE 1 ]

\* C8: the convergence outcome of a run (status, formula, attempts, the
\* formulas of the history) is the one prescribed by the configuration and
\* by what the measurer, classifier, renderer and capture did, whether the
\* oracle call succeeded or failed; a failed oracle call raises nothing and
\* leaves an empty or error-prefixed explanation.
C8_OracleFailureLeavesOutcome ==
    /\ Done =>
          LET want == PrescribedOutcome(MaxCyclesOf(config),
                                        ThresholdOf(config),
                                        env.classified, env.raised)
          IN  /\ OutcomeOf(result) =
                     [ status |-> want.status, formula |-> want.formula,
                       attempts |-> want.attempts,
                       formulas |-> want.formulas ]
              /\ Len(env.classified) = want.asked
    /\ env.oracle_failed =>
          /\ ~env.oracle_raised
          /\ explanation \in {"", "Error: oracle call failed"}
          /\ result.mmss_explanation = Some(explanation)

\* a run whose oracle call failed and that converged at attempt 3
C8_Witness ==
    /\ Done
    /\ env.oracle_failed
    /\ explanation = ""
    /\ result.status = "success"
    /\ result.attempts = 3

\* C9: when the input image cannot be opened or decoded, the result has an
\* empty history, attempts = 0, status = failure, no formula and error set,
\* and nothing has been measured or classified.
C9_InputErrorAbortsBeforeDiscovery ==
    env.input_error =>
        /\ Done
        /\ History = <<>>
        /\ result.attempts = 0
        /\ result.status = "failure"
        /\ result.formula = None
        /\ result.error # None
        /\ calls = NoCalls

\* the run ended by the image that cannot be decoded
C9_Witness ==
    /\ Done
    /\ env.input_error
    /\ config.loaded
    /\ result.error = Some("cannot identify image file")

\* the maximal whitespace runs of s each replaced by one space; after_space
\* tells that the character before s was whitespace
RECURSIVE CollapseRuns(_, _)
CollapseRuns(s, after_space) ==
    IF s = <<>> THEN <<>>
    ELSE IF Head(s) \in Whitespace
         THEN IF after_space THEN CollapseRuns(Tail(s), TRUE)
              ELSE <<" ">> \o CollapseRuns(Tail(s), TRUE)
         ELSE <<Head(s)>> \o CollapseRuns(Tail(s), FALSE)

\* s without a space at its end
DropTrailingSpace(s) ==
    IF s # <<>> /\ s[Len(s)] = " " THEN SubSeq(s, 1, Len(s) - 1) ELSE s

\* whitespace normalization, character by character: runs collapsed to one
\* space, leading and trailing whitespace dropped
Canonical(s) == DropTrailingSpace(CollapseRuns(s, TRUE))

C1 == <<"C", "1">>
C2 == <<"C", "2">>
C3 == <<"C", "3">>
C4 == <<"C", "4">>
C5 == <<"C", "5">>
C6 == <<"C", "6">>
C8 == <<"C", "8">>
C12 == <<"C", "1", "2">>
D1 == <<"D", "1">>
D2 == <<"D", "2">>
D3 == <<"D", "3">>
D4 == <<"D", "4">>
D6 == <<"D", "6">>
Cinf == <<"C", "inf">>
Oh == <<"O", "h">>
Ih == <<"I", "h">>
Td == <<"T", "d">>

Vocabulary ==
    {C1, C2, C3, C4, C5, C6, C8, C12, D1, D2, D3, D4, D6, Cinf, Oh, Ih, Td}

\* an invariants vector: dimensionality and repetition_score in hundredths,
\* branching angles and ratios as in the code but in tenths ([36.0] is <<360>>)
Vector(dim, symmetry, rep, conn, branching) ==
    [ dimensionality |-> dim, symmetry_approx |-> symmetry,
      repetition_score |-> rep, connectivity |-> conn,
      branching |-> branching ]

NoBranching == [angles |-> <<>>, ratios |-> <<>>]

(* ------------- generate_formula_from_invariants (classifier) ---------- *)

\* the invariants vectors handed to the classifier in its specification
ClassifierVectors ==
    { Vector(d, s, r, c, b) :
        d \in {90, 158, 160, 170}, s \in {C1, C3, C6}, r \in {50, 90},
        c \in {1, 2},
        b \in {NoBranching, [angles |-> <<360>>, ratios |-> <<7>>]} }

\* what the Mistral request does: a 200 answer with one of two contents
\* (temperature 0.3), a request exception, or a status other than 200
MistralOutcomes ==
    { [outcome |-> "ok", content |-> <<"mistral", 1>>],
      [outcome |-> "ok", content |-> <<"mistral", 2>>],
      [outcome |-> "exception", content |-> <<>>],
      [outcome |-> "non_200", content |-> <<>>] }

\* what the PySR fit on the np.random data of lines 150-169 does: it
\* returns one of several expressions (the data and the search are not
\* seeded), returns an expression shorter than 5 characters (line 203), the
\* fit raises, or building the regressor raises (outer try)
FitOutcomes ==
    { [outcome |-> "fitted", expression |-> <<"expr", 1>>],
      [outcome |-> "fitted", expression |-> <<"expr", 2>>],
      [outcome |-> "too_simple", expression |-> <<>>],
      [outcome |-> "fit_raises", expression |-> <<>>],
      [outcome |-> "setup_raises", expression |-> <<>>] }

\* lines 219-221 and 226-227: f"x^{dim:.3f} + y^{dim:.3f}"
FallbackFormula(inv) ==
    [ source |-> "fallback",
      text |-> <<"x^", inv.dimensionality, " + y^", inv.dimensionality>> ]

\* _generate_with_local_regression: the fitted expression, or the fallback
\* when anything inside the two try blocks raises
LocalRegression(inv, fit) ==
    IF fit.outcome = "fitted"
    THEN [source |-> "pysr", text |-> fit.expression]
    ELSE FallbackFormula(inv)

\* variant: the Mistral call is made outside any try block
GenerateFormulaUnguarded(inv, use_mistral, api_key, mistral, fit) ==
    IF UsesMistral(use_mistral, api_key)
    THEN IF mistral.outcome = "ok"
         THEN [ raised |-> FALSE,
                formula |-> Some([source |-> "mistral", text |-> mistral.content]) ]
         ELSE [ raised |-> TRUE, formula |-> None ]
    ELSE [ raised |-> FALSE, formula |-> Some(LocalRegression(inv, fit)) ]

\* generate_formula_from_invariants, lines 31-38: what the call returns
\* (formula) or that it raises, given what the request and the fit do
GenerateFormula(inv, use_mistral, api_key, mistral, fit) ==
    IF UsesMistral(use_mistral, api_key) /\ mistral.outcome = "ok"
    THEN [ raised |-> FALSE,
           formula |-> Some([source |-> "mistral", text |-> mistral.content]) ]
    ELSE [ raised |-> FALSE, formula |-> Some(LocalRegression(inv, fit)) ]

\* the number of calls the classifier specification makes on one vector
ClassifierCalls == 2

ClsInit ==
    /\ RunInit /\ SimIdle
    /\ sym = Idle /\ br = Idle /\ box = Idle
    /\ vis = Idle /\ meas = Idle /\ cli = Idle
    /\ \E inv \in ClassifierVectors, use \in BOOLEAN,
          key \in {None, Some(""), Some("key")} :
          cls = [ stage |-> "calling", invariants |-> inv,
                  use_mistral |-> use, api_key |-> key, results |-> <<>> ]

\* one call generate_formula_from_invariants(invariants, use_mistral,
\* api_key) on the vector of this specification
CallClassifier ==
    /\ cls.stage = "calling"
    /\ \E mistral \in MistralOutcomes, fit \in FitOutcomes :
          LET out == GenerateFormula(cls.invariants, cls.use_mistral,
                                     cls.api_key, mistral, fit)
              requested == UsesMistral(cls.use_mistral, cls.api_key)
              entry == [ requested |-> requested,
                         mistral |-> IF requested THEN mistral.outcome
                                     ELSE "not_called",
                         fit |-> IF requested /\ mistral.outcome = "ok"
                                 THEN "not_called" ELSE fit.outcome,
                         raised |-> out.raised, formula |-> out.formula ]
              results == Append(cls.results, entry)
          IN  cls' = [cls EXCEPT !.results = results,
                         !.stage = IF Len(results) = ClassifierCalls
                                   THEN "done" ELSE "calling"]
    /\ UNCHANGED <<runVars, simVars, sym, br, box, vis, meas, cli>>

ClsNext == CallClassifier

ClsSpec == ClsInit /\ [][ClsNext]_vars

\* rows 1 and 9 of the table of section 4.2 of the specification
Rule1(inv) ==
    /\ 155 <= inv.dimensionality /\ inv.dimensionality <= 160
    /\ inv.symmetry_approx = C3

Rule9(inv) ==
    /\ 160 <= inv.dimensionality /\ inv.dimensionality <= 200
    /\ inv.connectivity = 1

\* C11: a vector that satisfies rule 1 and rule 9 is classified as the
\* Sierpinski family (the first matching rule), never as Algebraic/Newton.
C11_Rule1BeforeRule9 ==
    \A i \in 1..Len(IF cls.stage = "idle" THEN <<>> ELSE cls.results) :
        (Rule1(cls.invariants) /\ Rule9(cls.invariants)) =>
            /\ cls.results[i].formula # None
            /\ cls.results[i].formula[1].source = "sierpinski"

\* C12: two calls of the classifier on equal vectors with equal options
\* return the same formula string.
C12_ClassifierDeterministic ==
    (cls.stage = "done") =>
        cls.results[1].formula = cls.results[2].formula

\* C13: every call of the classifier returns a string and raises nothing;
\* a failed Mistral request (exception or status other than 200) and a
\* failed local fit are absorbed: the call returns the local formula,
\* which is the fallback formula when the fit failed.
C13_ClassifierTotal ==
    \A i \in 1..Len(IF cls.stage = "idle" THEN <<>> ELSE cls.results) :
        LET r == cls.results[i]
        IN  /\ ~r.raised
            /\ r.formula # None
            /\ r.mistral \in {"exception", "non_200"} =>
                   r.formula[1].source \in {"pysr", "fallback"}
            /\ r.fit \in {"too_simple", "fit_raises", "setup_raises"} =>
                   r.formula[1] = FallbackFormula(cls.invariants)

\* a call whose Mistral request answered with a status other than 200 and
\* whose fit raised: the fallback formula is returned
C13_Witness ==
    /\ cls.stage = "done"
    /\ cls.results[2].mistral = "non_200"
    /\ cls.results[2].fit = "fit_raises"
    /\ cls.results[2].formula = Some(FallbackFormula(cls.invariants))
    /\ cls.results[1].mistral = "exception"

(* --------------- _determine_visualization_type (renderer) ------------- *)

\* Python's  sub in s  for strings: sub occurs in s as a substring
Contains(sub, s) ==
    \E i \in 1..(Len(s) - Len(sub) + 1) :
        SubSeq(s, i, i + Len(sub) - 1) = sub

\* boundary values of every threshold of the chain, in hundredths
Dimensions ==
    { 99, 100, 120, 121, 123, 124, 128, 129, 139, 140, 154, 155, 160,
      161, 179, 180, 190, 191, 194, 195, 200, 201, 205, 206, 269, 270,
      275, 276 }

Repetitions == {69, 70, 85, 86}

Connectivities == {1, 2}

\* branching.angles in tenths of a degree: [], [36.0], [90.0], [90.0, 90.0]
AngleLists == { <<>>, <<360>>, <<900>>, <<900, 900>> }

VisVectors ==
    { Vector(d, s, r, c, [angles |-> a, ratios |-> <<>>]) :
        d \in Dimensions, s \in Vocabulary, r \in Repetitions,
        c \in Connectivities, a \in AngleLists }

\* variant: the algebraic test made before the automaton test
DetermineVisualizationTypeReordered(inv) ==
    LET dim == inv.dimensionality
        symmetry == inv.symmetry_approx
        rep_score == inv.repetition_score
        connectivity == inv.connectivity
        angles == inv.branching.angles
    IN  IF 155 <= dim /\ dim <= 160 /\ symmetry = C3 THEN "sierpinski"
        ELSE IF 124 <= dim /\ dim <= 128
                /\ (Contains(<<"D">>, symmetry) \/ symmetry \in {C6, C12})
        THEN "koch"
        ELSE IF 195 <= dim /\ dim <= 205 /\ rep_score > 85 THEN "julia"
        ELSE IF 195 <= dim /\ dim <= 205 /\ angles = <<900>> THEN "dragon"
        ELSE IF 180 <= dim /\ dim <= 190
                /\ (Contains(C5, symmetry) \/ Contains(Cinf, symmetry))
        THEN "tree"
        ELSE IF 270 <= dim /\ dim <= 275 /\ symmetry = Oh THEN "menger"
        ELSE IF 160 <= dim /\ dim <= 200 /\ connectivity = 1
        THEN "algebraic"
        ELSE IF 140 <= dim /\ dim <= 200 /\ rep_score < 70 THEN "automaton"
        ELSE IF 100 <= dim /\ dim <= 120 /\ symmetry = Cinf THEN "spiral"
        ELSE IF dim < 100 THEN "cantor"
        ELSE "generic"

\* _determine_visualization_type, lines 69-98: the if/elif chain
DetermineVisualizationType(inv) ==
    LET dim == inv.dimensionality
        symmetry == inv.symmetry_approx
        rep_score == inv.repetition_score
        connectivity == inv.connectivity
        angles == inv.branching.angles
    IN  IF 155 <= dim /\ dim <= 160 /\ symmetry = C3 THEN "sierpinski"
        ELSE IF 124 <= dim /\ dim <= 128
                /\ (Contains(<<"D">>, symmetry) \/ symmetry \in {C6, C12})
        THEN "koch"
        ELSE IF 195 <= dim /\ dim <= 205 /\ rep_score > 85 THEN "julia"
        ELSE IF 195 <= dim /\ dim <= 205 /\ angles = <<900>> THEN "dragon"
        ELSE IF 180 <= dim /\ dim <= 190
                /\ (Contains(C5, symmetry) \/ Contains(Cinf, symmetry))
        THEN "tree"
        ELSE IF 270 <= dim /\ dim <= 275 /\ symmetry = Oh THEN "menger"
        ELSE IF 140 <= dim /\ dim <= 200 /\ rep_score < 70 THEN "automaton"
        ELSE IF 100 <= dim /\ dim <= 120 /\ symmetry = Cinf THEN "spiral"
        ELSE IF 160 <= dim /\ dim <= 200 /\ connectivity = 1
        THEN "algebraic"
        ELSE IF dim < 100 THEN "cantor"
        ELSE "generic"

VisInit ==
    /\ RunInit /\ SimIdle
    /\ sym = Idle /\ br = Idle /\ box = Idle
    /\ cls = Idle /\ meas = Idle /\ cli = Idle
    /\ \E inv \in VisVectors : vis = [stage |-> "start", invariants |-> inv]

\* the call _determine_visualization_type(invariants) of line 57
SelectFamily ==
    /\ vis.stage = "start"
    /\ vis' = [ stage |-> "selected", invariants |-> vis.invariants,
                family |-> DetermineVisualizationType(vis.invariants) ]
    /\ UNCHANGED <<runVars, simVars, sym, br, box, cls, meas, cli>>

VisNext == SelectFamily

VisSpec == VisInit /\ [][VisNext]_vars

\* the rows of the decision table of section 4.2, by priority
Between(lo, x, hi) == lo <= x /\ x <= hi

RowMatches(n, inv) ==
    LET dim == inv.dimensionality
        symmetry == inv.symmetry_approx
    IN  CASE n = 1 -> Between(155, dim, 160) /\ symmetry = C3
          [] n = 2 -> Between(124, dim, 128)
                      /\ symmetry \in {D1, D2, D3, D4, D6, C6, C12}
          [] n = 3 -> Between(195, dim, 205) /\ inv.repetition_score > 85
          [] n = 4 -> Between(195, dim, 205)
                      /\ inv.branching.angles = <<900>>
          [] n = 5 -> Between(180, dim, 190) /\ symmetry \in {C5, Cinf}
          [] n = 6 -> Between(270, dim, 275) /\ symmetry = Oh
          [] n = 7 -> Between(140, dim, 200) /\ inv.repetition_score < 70
          [] n = 8 -> Between(100, dim, 120) /\ symmetry = Cinf
          [] n = 9 -> Between(160, dim, 200) /\ inv.connectivity = 1
          [] n = 10 -> dim < 100
          [] OTHER -> TRUE

TableRows == 10

FirstMatchingRow(inv) ==
    Min({ n \in 1..(TableRows + 1) : RowMatches(n, inv) })

FamilyOfRow(n) ==
    << "sierpinski", "koch", "julia", "dragon", "tree", "menger",
       "automaton", "spiral", "algebraic", "cantor", "generic" >>[n]

\* C14: for every vector with a symmetry token of the vocabulary the
\* renderer selects the family of the first matching row of the table in
\* priority order 1..10, and the generic family when no row matches.
C14_FamilyIsFirstMatchingRow ==
    (vis.stage = "selected") =>
        vis.family = FamilyOfRow(FirstMatchingRow(vis.invariants))

\* a vector matching rows 7 and 9 at once: the earlier row is selected
C14_Witness ==
    /\ vis.stage = "selected"
    /\ RowMatches(7, vis.invariants) /\ RowMatches(9, vis.invariants)
    /\ vis.family = "automaton"

(* ------------------------------ main (CLI) ---------------------------- *)

\* paths that may be named on the command line
Paths == {"a.png", "b.png", "c.png"}

\* the largest number of command-line arguments after the program name
MaxArgs == 2

RECURSIVE ArgLists(_)
ArgLists(n) ==
    IF n = 0 THEN { <<>> }
    ELSE ArgLists(n - 1) \cup
         { Append(a, p) : a \in { b \in ArgLists(n - 1) : Len(b) = n - 1 },
                          p \in Paths }

\* the number of positional parameters of UAGO3CEngine.__init__ besides
\* self (uago_core.py line 28: def __init__(self))
InitParameters == 0

\* calling UAGO3CEngine with n positional arguments raises TypeError
\* unless n is the number of parameters of __init__
ConstructorRaises(n) == n # InitParameters

Reports == {"result_timestamp.json", "latest.json"}

CliInit ==
    /\ RunInit /\ SimIdle
    /\ sym = Idle /\ br = Idle /\ box = Idle
    /\ cls = Idle /\ vis = Idle /\ meas = Idle
    /\ \E argv \in ArgLists(MaxArgs), existing \in SUBSET Paths :
          cli = [ stage |-> "arguments", argv |-> argv,
                  existing |-> existing, exit |-> None,
                  constructed |-> FALSE, ran |-> FALSE,
                  raised |-> None, written |-> {} ]

\* lines 19-21: len(sys.argv) != 2 (sys.argv[0] is the program name)
CheckArguments ==
    /\ cli.stage = "arguments"
    /\ cli' = IF Len(cli.argv) + 1 # 2
              THEN [cli EXCEPT !.stage = "exited", !.exit = Some(1)]
              ELSE [cli EXCEPT !.stage = "file"]
    /\ UNCHANGED <<runVars, simVars, sym, br, box, cls, vis, meas>>

\* lines 23-27: os.path.exists(image_path)
CheckFile ==
    /\ cli.stage = "file"
    /\ cli' = IF cli.argv[1] \notin cli.existing
              THEN [cli EXCEPT !.stage = "exited", !.exit = Some(1)]
              ELSE [cli EXCEPT !.stage = "analysis"]
    /\ UNCHANGED <<runVars, simVars, sym, br, box, cls, vis, meas>>

\* lines 29-61: the try block and its handler.  UAGO3CEngine(config_path)
\* passes one positional argument; run returns a result of either status
\* and never raises; writing the reports may raise OSError; the handler of
\* lines 57-61 exits with code 1; leaving main normally exits with code 0
Analyse ==
    /\ cli.stage = "analysis"
    /\ IF ConstructorRaises(1)
       THEN cli' = [cli EXCEPT !.stage = "exited", !.exit = Some(1),
                               !.raised = Some("TypeError")]
       ELSE \E status \in {"success", "failure"},
               writes \in {{}, {"result_timestamp.json"}, Reports} :
               cli' = [cli EXCEPT !.stage = "exited",
                           !.constructed = TRUE, !.ran = TRUE,
                           !.written = writes,
                           !.raised = IF writes = Reports THEN None
                                      ELSE Some("OSError"),
                           !.exit = IF writes = Reports THEN Some(0)
                                    ELSE Some(1)]
    /\ UNCHANGED <<runVars, simVars, sym, br, box, cls, vis, meas>>

CliNext == CheckArguments \/ CheckFile \/ Analyse

CliSpec == CliInit /\ [][CliNext]_vars

\* C15: main exits with code 1 when the argument is missing or the named
\* file does not exist; given exactly one argument naming an existing file
\* it constructs the engine, runs it, writes the timestamped report and
\* latest.json and exits with code 0, unless writing the reports fails.
C15_CliExitCodes ==
    (cli.stage = "exited") =>
        IF Len(cli.argv) # 1 \/ cli.argv[1] \notin cli.existing
        THEN cli.exit = Some(1) /\ ~cli.constructed /\ cli.written = {}
        ELSE \/ cli.raised = Some("OSError") /\ cli.exit = Some(1)
             \/ /\ cli.constructed /\ cli.ran
                /\ cli.written = Reports
                /\ cli.exit = Some(0)

(* ------------------------- claims about run, continued ---------------- *)

\* C16: for every attempt k >= 2 in history, similarity_score is the
\* similarity of the formula of record k-1 and the formula of record k,
\* and the renderer of attempt k was handed the formula and invariants of
\* record k-1; record 1 has no similarity_score and no visualization.
C16_AttemptsCompareWithPredecessor ==
    /\ \A k \in 2..Len(History) :
          /\ History[k].similarity_score =
                 Some(Similarity(History[k - 1].formula, History[k].formula))
          /\ Len(env.rendered) >= k - 1
          /\ env.rendered[k - 1] =
                 <<History[k - 1].formula, History[k - 1].invariants>>
    /\ \A j \in 1..Len(env.rendered) :
          /\ j <= Len(History)
          /\ env.rendered[j] = <<History[j].formula, History[j].invariants>>
    /\ Len(History) >= 1 =>
          /\ History[1].similarity_score = None
          /\ History[1].visualization = None

\* a run with three records whose second attempt did not converge: the
\* third attempt is compared with the second record, whose formula and
\* invariants differ from those of the first
C16_Witness ==
    /\ Done
    /\ Len(History) = 3
    /\ History[1].formula # History[2].formula
    /\ History[1].invariants # History[2].invariants
    /\ Similarity(History[1].formula, History[3].formula)
           # Similarity(History[2].formula, History[3].formula)
    /\ Len(env.rendered) = 2

(* --------------------------- _detect_symmetry ------------------------- *)

\* line 144: angles = [0, 30, 45, 60, 90, 120, 180]
Angles == <<0, 30, 45, 60, 90, 120, 180>>

\* rotation scores in hundredths, around the thresholds 0.80 and 0.85 and
\* at 1.0 (no pixel differs after the rotation)
ScoreLevels == {80, 81, 85, 86, 100}

\* lines 145-153: the list scores; the score of angle 0 is 1.0
ScoreLists ==
    { <<100>> \o s : s \in [1..6 -> ScoreLevels] }

\* np.argmax: the index of the first maximum of a sequence
ArgMax(s) ==
    Min({ i \in 1..Len(s) : \A j \in 1..Len(s) : s[j] <= s[i] })

Tail6(s) == SubSeq(s, 2, 7)

\* line 156: best_idx = np.argmax(scores[1:]) + 1, as a 1-based index
BestIndex(scores) == ArgMax(Tail6(scores)) + 1

\* lines 159-172: the label of the best angle
LabelOf(angle) ==
    CASE angle = 180 -> C2
      [] angle = 120 -> C3
      [] angle = 90 -> C4
      [] angle = 60 -> C6
      [] angle = 45 -> C8
      [] angle = 30 -> C12
      [] OTHER -> C1

\* lines 155-178: the decision (scores[3], scores[5], scores[4] of the code
\* are the scores of 60, 120 and 90 degrees)
DetectSymmetry(scores) ==
    LET best_idx == BestIndex(scores)
    IN  IF scores[best_idx] > 85 THEN LabelOf(Angles[best_idx])
        ELSE IF scores[4] > 80 /\ scores[6] > 80 THEN C3
        ELSE IF scores[5] > 80 THEN C4
        ELSE C1

SymInit ==
    /\ RunInit /\ SimIdle
    /\ br = Idle /\ box = Idle /\ cls = Idle
    /\ vis = Idle /\ meas = Idle /\ cli = Idle
    /\ \E s \in ScoreLists : sym = [stage |-> "scored", scores |-> s]

\* lines 155-178 applied to the scores of one image
Decide ==
    /\ sym.stage = "scored"
    /\ sym' = [ stage |-> "decided", scores |-> sym.scores,
                token |-> DetectSymmetry(sym.scores) ]
    /\ UNCHANGED <<runVars, simVars, br, box, cls, vis, meas, cli>>

SymNext == Decide

SymSpec == SymInit /\ [][SymNext]_vars

\* the score of an angle in a score list
ScoreAt(scores, angle) ==
    scores[CHOOSE i \in 1..Len(Angles) : Angles[i] = angle]

RotationAngles == {30, 45, 60, 90, 120, 180}

\* the tokens of rotation groups that contain the rotation by 90 degrees
C4Family == {C4, C8, C12, D4}

\* the decision order of section 4.1, step 6
FollowsDecisionOrder(scores, token) ==
    IF \E a \in RotationAngles : ScoreAt(scores, a) > 85
    THEN \E a \in RotationAngles :
            ScoreAt(scores, a) > 85 /\ token = LabelOf(a)
    ELSE IF ScoreAt(scores, 60) > 80 /\ ScoreAt(scores, 120) > 80
    THEN token = C3
    ELSE IF ScoreAt(scores, 90) > 80 THEN token = C4
    ELSE token = C1

\* the decision order is followed and the token is in the vocabulary
SymmetryDecisionOrder ==
    (sym.stage = "decided") =>
        /\ FollowsDecisionOrder(sym.scores, sym.token)
        /\ sym.token \in Vocabulary

\* C17: _detect_symmetry follows the decision order over the scores of the
\* angles 30, 45, 60, 90, 120, 180, its result is a token of the
\* vocabulary, and an image whose 90 and 180 degree scores are 1.0 yields
\* a C4-family token.
C17_SymmetryDecision ==
    (sym.stage = "decided") =>
        /\ FollowsDecisionOrder(sym.scores, sym.token)
        /\ sym.token \in Vocabulary
        /\ (ScoreAt(sym.scores, 90) = 100 /\ ScoreAt(sym.scores, 180) = 100)
               => sym.token \in C4Family

(* -------------------------- _analyze_branching ------------------------ *)

\* line 49: cv2.threshold(gray, 0, 255, ...): foreground pixels are 255
ForegroundValue == 255

\* the numbers of pixels (binary_img.size) of the images analysed
PixelCounts == {100, 1000}

\* what skeletonize and the junction search of lines 197-205 do
SkeletonOutcomes == {"junctions", "no_junctions", "raises"}

\* line 193: np.sum(binary_img) of an image with k foreground pixels
PixelSum(k) == ForegroundValue * k

\* line 194: density > 0.3 or density < 0.01, with density = total / size
OutsideDensityRange(total, size) ==
    10 * total > 3 * size \/ 100 * total < size

\* variant: the placeholder result reports a right angle
AnalyzeBranchingRightAngle(k, size, skeleton) ==
    IF OutsideDensityRange(PixelSum(k), size)
    THEN [attempted |-> FALSE, branching |-> NoBranching]
    ELSE [ attempted |-> TRUE,
           branching |-> IF skeleton = "junctions"
                         THEN [angles |-> <<900>>, ratios |-> <<7>>]
                         ELSE NoBranching ]

\* _analyze_branching, lines 189-213, for an image of size pixels of which
\* k are foreground: whether the analysis was attempted and the result
AnalyzeBranching(k, size, skeleton) ==
    IF OutsideDensityRange(PixelSum(k), size)
    THEN [attempted |-> FALSE, branching |-> NoBranching]
    ELSE [ attempted |-> TRUE,
           branching |-> IF skeleton = "junctions"
                         THEN [angles |-> <<360>>, ratios |-> <<7>>]
                         ELSE NoBranching ]

BrInit ==
    /\ RunInit /\ SimIdle
    /\ sym = Idle /\ box = Idle /\ cls = Idle
    /\ vis = Idle /\ meas = Idle /\ cli = Idle
    /\ \E size \in PixelCounts : \E k \in 0..size :
          br = [stage |-> "binarized", size |-> size, foreground |-> k]

\* the call _analyze_branching(binary) of line 69
Analyze ==
    /\ br.stage = "binarized"
    /\ \E skeleton \in SkeletonOutcomes :
          LET out == AnalyzeBranching(br.foreground, br.size, skeleton)
          IN  br' = [ stage |-> "analysed", size |-> br.size,
                      foreground |-> br.foreground,
                      attempted |-> out.attempted,
                      branching |-> out.branching ]
    /\ UNCHANGED <<runVars, simVars, sym, box, cls, vis, meas, cli>>

BrNext == Analyze

BrSpec == BrInit /\ [][BrNext]_vars

\* foreground pixels / pixels lies strictly between 0.01 and 0.3
FractionInRange(k, size) == 100 * k > size /\ 10 * k < 3 * size

\* C18: the branching analysis is attempted exactly when the foreground
\* fraction (foreground pixels / pixels) lies within (0.01, 0.3); outside
\* that interval the result is empty angles and ratios.
C18_BranchingDensityGate ==
    (br.stage = "analysed") =>
        /\ br.attempted <=> FractionInRange(br.foreground, br.size)
        /\ ~FractionInRange(br.foreground, br.size) =>
               br.branching = NoBranching

(* ------------------------ _box_counting_dimension --------------------- *)

\* the largest height and width of the binary images counted
MaxSide == 3

\* line 81: max_boxes = 6
MaxBoxes == 6

\* line 100: the default dimension 2.0, in hundredths
DefaultDimension == 200

\* a binary image: its shape and the set of its foreground pixels <<i, j>>
BinaryImages ==
    UNION { { [H |-> h, W |-> w, foreground |-> fg] :
                fg \in SUBSET ((0..(h - 1)) \X (0..(w - 1))) } :
            h \in 1..MaxSide, w \in 1..MaxSide }

\* range(0, n, size)
Starts(n, size) == { i \in 0..(n - 1) : i % size = 0 }

\* np.any(binary_img[i:i + size, j:j + size]): slices are clipped at the
\* edges of the image
AnyForeground(img, i, j, size) ==
    \E p \in img.foreground :
        /\ i <= p[1] /\ p[1] < i + size
        /\ j <= p[2] /\ p[2] < j + size

\* lines 89-93: the count of one box size
CountBoxes(img, size) ==
    Cardinality({ b \in Starts(img.H, size) \X Starts(img.W, size) :
                    AnyForeground(img, b[1], b[2], size) })

\* lines 87-97: the loop over the sizes 1, 2, 4, ...; pairs holds the
\* (size, count) pairs appended so far
RECURSIVE CountSizes(_, _, _)
CountSizes(img, size, pairs) ==
    IF size <= Min({img.H, img.W}) /\ Len(pairs) < MaxBoxes
    THEN LET boxes == CountBoxes(img, size)
         IN  CountSizes(img, 2 * size,
                        IF boxes > 0 THEN Append(pairs, <<size, boxes>>)
                        ELSE pairs)
    ELSE pairs

\* _box_counting_dimension: the pairs it fits, or the default when there
\* are fewer than two (lines 99-100); the fit of lines 102-105 is not
\* evaluated
BoxCountingDimension(img) ==
    LET pairs == CountSizes(img, 1, <<>>)
    IN  IF Len(pairs) < 2
        THEN [raised |-> FALSE, fitted |-> FALSE, pairs |-> pairs,
              dimension |-> Some(DefaultDimension)]
        ELSE [raised |-> FALSE, fitted |-> TRUE, pairs |-> pairs,
              dimension |-> None]

BoxInit ==
    /\ RunInit /\ SimIdle
    /\ sym = Idle /\ br = Idle /\ cls = Idle
    /\ vis = Idle /\ meas = Idle /\ cli = Idle
    /\ \E img \in BinaryImages : box = [stage |-> "binarized", image |-> img]

\* the call _box_counting_dimension(binary) of line 53
CountImage ==
    /\ box.stage = "binarized"
    /\ box' = [ stage |-> "counted", image |-> box.image,
                out |-> BoxCountingDimension(box.image) ]
    /\ UNCHANGED <<runVars, simVars, sym, br, cls, vis, meas, cli>>

BoxNext == CountImage

BoxSpec == BoxInit /\ [][BoxNext]_vars

\* the boxes of size s of the image truncated to dimensions divisible by s
\* that contain a foreground pixel
TruncatedCount(img, s) ==
    Cardinality({ b \in Starts(img.H, s) \X Starts(img.W, s) :
                    /\ b[1] + s <= img.H /\ b[2] + s <= img.W
                    /\ AnyForeground(img, b[1], b[2], s) })

\* C19: the count of every box size used is the number of boxes of the
\* truncated image that contain foreground, and with fewer than two
\* (size, count) pairs the function returns 2.0 without raising.
C19_BoxCountsOfTruncatedImage ==
    (box.stage = "counted") =>
        /\ \A n \in 1..Len(box.out.pairs) :
              box.out.pairs[n][2] =
                  TruncatedCount(box.image, box.out.pairs[n][1])
        /\ Len(box.out.pairs) < 2 =>
              /\ ~box.out.raised
              /\ box.out.dimension = Some(DefaultDimension)

\* the default-dimension part alone
BoxDefaultDimension ==
    (box.stage = "counted" /\ Len(box.out.pairs) < 2) =>
        /\ ~box.out.raised
        /\ box.out.dimension = Some(DefaultDimension)

(* --------------------------- measure_invariants ----------------------- *)

\* score lists of the images measured: below and above both thresholds
MeasuredScoreLists ==
    { <<100>> \o s : s \in [1..6 -> {80, 81, 86}] }

\* (pixels, foreground pixels) of the images measured: empty, inside the
\* density range of _analyze_branching, and half foreground
MeasuredDensities == { <<1000, 0>>, <<1000, 1>>, <<1000, 500>> }

\* connectivity = len(regionprops(labeled)), line 60
ComponentCounts == {0, 1, 2}

MeasInit ==
    /\ RunInit /\ SimIdle
    /\ sym = Idle /\ br = Idle /\ box = Idle
    /\ cls = Idle /\ vis = Idle /\ cli = Idle
    /\ \E s \in MeasuredScoreLists, d \in MeasuredDensities :
          meas = [ stage |-> "binarized", scores |-> s,
                   size |-> d[1], foreground |-> d[2] ]

\* measure_invariants, lines 52-78: the vector returned for one binary
\* image; dimension, repetition and connectivity are whatever the image
\* gives, symmetry and branching are computed by their functions
MeasureImage ==
    /\ meas.stage = "binarized"
    /\ \E d \in Dimensions, r \in Repetitions, c \in ComponentCounts,
          skeleton \in SkeletonOutcomes :
          meas' = [ stage |-> "measured",
                    invariants |->
                        Vector(d, DetectSymmetry(meas.scores), r, c,
                               AnalyzeBranching(meas.foreground, meas.size,
                                                skeleton).branching) ]
    /\ UNCHANGED <<runVars, simVars, sym, br, box, cls, vis, cli>>

\* the renderer's family selection on a measured vector (uago_core.py
\* lines 141-148 and 168-175 hand measured invariants to the renderer)
SelectMeasuredFamily ==
    /\ meas.stage = "measured"
    /\ meas' = [ stage |-> "selected", invariants |-> meas.invariants,
                 family |-> DetermineVisualizationType(meas.invariants) ]
    /\ UNCHANGED <<runVars, simVars, sym, br, box, cls, vis, cli>>

MeasNext == MeasureImage \/ SelectMeasuredFamily

MeasSpec == MeasInit /\ [][MeasNext]_vars

MeasuredTokens == {C1, C2, C3, C4, C6, C8, C12}

MeasuredBranchings ==
    { NoBranching, [angles |-> <<360>>, ratios |-> <<7>>] }

UnreachableFamilies == {"dragon", "tree", "menger", "spiral"}

\* C20: every measured vector has its symmetry in {C1, C2, C3, C4, C6, C8,
\* C12} and its branching either empty or ([36.0], [0.7]); the renderer
\* never selects dragon, tree, menger or spiral for a measured vector.
C20_MeasuredVectorsMissFourFamilies ==
    /\ meas.stage \in {"measured", "selected"} =>
          /\ meas.invariants.symmetry_approx \in MeasuredTokens
          /\ meas.invariants.branching \in MeasuredBranchings
    /\ meas.stage = "selected" => meas.family \notin UnreachableFamilies

\* a measured vector in the dragon row's dimension range with a branching
\* angle and a repetition score that does not select julia
C20_Witness ==
    /\ meas.stage = "selected"
    /\ Between(195, meas.invariants.dimensionality, 205)
    /\ meas.invariants.repetition_score <= 85
    /\ meas.invariants.branching.angles = <<360>>
    /\ meas.family \in {"automaton", "algebraic", "generic"}

(* ------------------ the classifier and its caller run ----------------- *)

\* the classifier called by run (Next, while no direct call is under way)
\* or called directly with any options (ClsNext)
MistralInit == Init \/ ClsInit

MistralNext == (cls = Idle /\ Next) \/ ClsNext

MistralSpec == MistralInit /\ [][MistralNext]_vars

\* the classifier calls made directly
DirectCalls == IF cls = Idle THEN <<>> ELSE cls.results

\* C21: the classifier calls the Mistral service only when use_mistral is
\* true and an API key is supplied; run passes no API key, so no classifier
\* call of a run invokes Mistral, whatever use_mistral_api is configured,
\* and every formula in history comes from the local generator.
C21_RunNeverInvokesMistral ==
    /\ \A i \in 1..Len(DirectCalls) :
          /\ DirectCalls[i].requested <=>
                 (cls.use_mistral /\ cls.api_key \notin {None, Some("")})
          /\ DirectCalls[i].mistral # "not_called" => DirectCalls[i].requested
          /\ DirectCalls[i].formula[1].source = "mistral" =>
                 DirectCalls[i].requested
    /\ \A i \in 1..Len(env.formula_paths) :
          /\ ~env.formula_paths[i].invoked
          /\ env.formula_paths[i].source = "local"
    /\ Len(History) <= Len(env.formula_paths)
    /\ \A k \in 1..Len(History) : History[k].formula = env.classified[k]

\* a finished run of two attempts whose configuration sets use_mistral_api
\* for Discovery and for Validation: both formulas are local
C21_Witness ==
    /\ Done
    /\ Len(History) = 2
    /\ config.mmss_use_mistral_api = Some(TRUE)
    /\ config.use_mistral_api = Some(TRUE)
    /\ env.formula_paths[1].use_mistral /\ env.formula_paths[2].use_mistral
    /\ env.formula_paths[2].source = "local"

==========================================================================
